---- MODULE Spec2Model ----
(***************************************************************************)
(* Delayed-scaling FP8 quantization of flax/linen/fp8_ops.py.              *)
(*                                                                         *)
(* Floating-point values are modelled bit-exactly: a value is a record     *)
(* [k, s, m, e] with k the kind ("fin", "inf", "nan"), s the sign bit and, *)
(* for a finite value, (-1)^s * m * 2^e in the canonical form of its       *)
(* format (m has the format's precision unless e is the smallest exponent, *)
(* where the subnormals and zero live).  Every arithmetic operation rounds *)
(* to nearest, ties to even, as IEEE 754 binary32 and the two FP8 formats  *)
(* do.  Equality of two values in the formulas below is identity of the    *)
(* datum (NaN is one datum).                                               *)
(***************************************************************************)
EXTENDS Integers, Sequences, FiniteSets, TLC

\* ------------------------------------------------------------------------
\* Number formats: p bits of precision, emin/emax the exponent of the last
\* place of the smallest subnormal and of the largest binade, maxm the
\* largest significand of that binade, inf whether the format has
\* infinities (float8_e4m3fn has none: its largest finite value is 448).
\* ------------------------------------------------------------------------
F32 == [p |-> 24, emin |-> -149, emax |-> 104, maxm |-> 16777215, inf |-> TRUE]
E4M3 == [p |-> 4, emin |-> -9, emax |-> 5, maxm |-> 14, inf |-> FALSE]
E5M2 == [p |-> 3, emin |-> -16, emax |-> 13, maxm |-> 7, inf |-> TRUE]

NaN == [k |-> "nan", s |-> 0, m |-> 0, e |-> 0]
Inf(s) == [k |-> "inf", s |-> s, m |-> 0, e |-> 0]
Fin(s, m, e) == [k |-> "fin", s |-> s, m |-> m, e |-> e]
Zero(fmt, s) == Fin(s, 0, fmt.emin)

Min2(a, b) == IF a <= b THEN a ELSE b
Max2(a, b) == IF a >= b THEN a ELSE b
Xor(s, t) == (s + t) % 2

\* Number of significant bits of a natural below 2^30.
RECURSIVE BitLen(_)
BitLen(q) ==
  IF q = 0 THEN 0
  ELSE IF q >= 16777216 THEN 24 + BitLen(q \div 16777216)
  ELSE IF q >= 4096 THEN 12 + BitLen(q \div 4096)
  ELSE IF q >= 64 THEN 6 + BitLen(q \div 64)
  ELSE IF q >= 8 THEN 3 + BitLen(q \div 8)
  ELSE IF q >= 4 THEN 3 ELSE IF q >= 2 THEN 2 ELSE 1

Pack(fmt, s, m, e) ==
  IF m = 0 THEN Zero(fmt, s)
  ELSE IF e > fmt.emax \/ (e = fmt.emax /\ m > fmt.maxm)
       THEN (IF fmt.inf THEN Inf(s) ELSE NaN)
  ELSE Fin(s, m, e)

\* Round (-1)^s * (q + f) * 2^e to the format, where 0 <= f < 1 and
\* sticky says f > 0: round to nearest, ties to even, gradual underflow,
\* overflow to infinity.  n is the bit length of q and sh the number of low
\* bits of q the format cannot hold.
RoundUp(rem, half, sticky, odd) == rem > half \/ (rem = half /\ (sticky \/ odd))

PackExact(fmt, s, q, e, up) == Pack(fmt, s, q * 2^up, e - up)

PackCarry(fmt, s, m, e) ==
  IF m = 2^fmt.p THEN Pack(fmt, s, 2^(fmt.p - 1), e + 1) ELSE Pack(fmt, s, m, e)

RoundAt(fmt, s, q, sticky, e, n, sh) ==
  IF sh <= 0 THEN PackExact(fmt, s, q, e, Min2(fmt.p - n, e - fmt.emin))
  ELSE IF sh > n THEN Zero(fmt, s)
  ELSE PackCarry(fmt, s,
                 (q \div 2^sh) +
                   (IF RoundUp(q % 2^sh, 2^(sh - 1), sticky, (q \div 2^sh) % 2 = 1)
                    THEN 1 ELSE 0),
                 e + sh)

RoundLen(fmt, s, q, sticky, e, n) ==
  RoundAt(fmt, s, q, sticky, e, n, Max2(n - fmt.p, fmt.emin - e))

Round(fmt, s, q, sticky, e) ==
  IF q = 0 THEN Zero(fmt, s) ELSE RoundLen(fmt, s, q, sticky, e, BitLen(q))

\* Long division in base 64: digits more quotient digits of r / d, where
\* r < d < 2^24, so that 64 * r stays below 2^30.
RECURSIVE LongDiv(_, _, _, _)
LongDiv(r, d, digits, acc) ==
  IF digits = 0 THEN <<acc, r>>
  ELSE LongDiv((64 * r) % d, d, digits - 1, 64 * acc + ((64 * r) \div d))

\* The quotient of two 24-bit significands to 26 places below the point
\* (24 by LongDiv, two more here), the remainder as the sticky bit.
DivRound(s, mb, e, q24) ==
  Round(F32, s, 4 * q24[1] + ((4 * q24[2]) \div mb), (4 * q24[2]) % mb # 0, e)

DivSignificands(s, ma, ea, mb, eb) ==
  DivRound(s, mb, ea - eb - 26, LongDiv(ma % mb, mb, 4, ma \div mb))

DivNormalized(s, a, b, la, lb) ==
  DivSignificands(s, a.m * 2^la, a.e - la, b.m * 2^lb, b.e - lb)

\* The float32 quotient a / b.
F32Div(a, b) ==
  IF a.k = "nan" \/ b.k = "nan" THEN NaN
  ELSE IF a.k = "inf" THEN (IF b.k = "inf" THEN NaN ELSE Inf(Xor(a.s, b.s)))
  ELSE IF b.k = "inf" THEN Zero(F32, Xor(a.s, b.s))
  ELSE IF b.m = 0 THEN (IF a.m = 0 THEN NaN ELSE Inf(Xor(a.s, b.s)))
  ELSE IF a.m = 0 THEN Zero(F32, Xor(a.s, b.s))
  ELSE DivNormalized(Xor(a.s, b.s), a, b, 24 - BitLen(a.m), 24 - BitLen(b.m))

\* The number of trailing zero bits of a significand.
RECURSIVE TrailZ(_)
TrailZ(m) == IF m = 0 \/ m % 2 = 1 THEN 0 ELSE 1 + TrailZ(m \div 2)

MulOdd(s, a, b, za, zb) ==
  Round(F32, s, (a.m \div 2^za) * (b.m \div 2^zb), FALSE, a.e + za + b.e + zb)

\* The float32 product a * b.  The product of the two significands without
\* their trailing zeros must stay below 2^30; in dequantize one factor was
\* an FP8 value, whose significand has at most four bits.
F32Mul(a, b) ==
  IF a.k = "nan" \/ b.k = "nan" THEN NaN
  ELSE IF a.k = "inf"
       THEN (IF b.k = "fin" /\ b.m = 0 THEN NaN ELSE Inf(Xor(a.s, b.s)))
  ELSE IF b.k = "inf" THEN (IF a.m = 0 THEN NaN ELSE Inf(Xor(a.s, b.s)))
  ELSE IF a.m = 0 \/ b.m = 0 THEN Zero(F32, Xor(a.s, b.s))
  ELSE MulOdd(Xor(a.s, b.s), a, b, TrailZ(a.m), TrailZ(b.m))

\* x.astype(fmt): conversion of a value to another format.
Cast(fmt, x) ==
  IF x.k = "nan" THEN NaN
  ELSE IF x.k = "inf" THEN (IF fmt.inf THEN x ELSE NaN)
  ELSE Round(fmt, x.s, x.m, FALSE, x.e)

\* The float32 value n * 2^e of a literal.
Lit(n, e) == Round(F32, IF n < 0 THEN 1 ELSE 0, IF n < 0 THEN -n ELSE n, FALSE, e)
One == Lit(1, 0)

IsNaN(x) == x.k = "nan"
IsFinite(x) == x.k = "fin"
Abs(x) == IF x.k = "nan" THEN NaN ELSE [x EXCEPT !.s = 0]
Neg(x) == IF x.k = "nan" THEN NaN ELSE [x EXCEPT !.s = 1 - x.s]

\* |a| < |b| for two values of one format, neither NaN.
MagLt(a, b) ==
  IF a.k = "inf" THEN FALSE
  ELSE IF b.k = "inf" THEN TRUE
  ELSE a.e < b.e \/ (a.e = b.e /\ a.m < b.m)

IsZero(x) == x.k = "fin" /\ x.m = 0

\* a < b, neither NaN (the two zeros compare equal).
Lt(a, b) ==
  IF IsZero(a) /\ IsZero(b) THEN FALSE
  ELSE IF a.s # b.s THEN a.s = 1
  ELSE IF a.s = 0 THEN MagLt(a, b) ELSE MagLt(b, a)

\* amax > 0.0
GtZero(x) == x.k # "nan" /\ x.s = 0 /\ ~IsZero(x)

\* jnp.maximum / jnp.minimum: NaN propagates.
FMax(a, b) == IF IsNaN(a) \/ IsNaN(b) THEN NaN ELSE IF Lt(a, b) THEN b ELSE a
FMin(a, b) == IF IsNaN(a) \/ IsNaN(b) THEN NaN ELSE IF Lt(b, a) THEN b ELSE a

\* jnp.max over a non-empty one-dimensional array.
RECURSIVE ArrayMax(_)
ArrayMax(xs) ==
  IF Len(xs) = 1 THEN xs[1] ELSE FMax(xs[1], ArrayMax(Tail(xs)))

\* ------------------------------------------------------------------------
\* fp8_ops.py.  A tensor is a non-empty sequence of float32 values (the
\* compute dtype is float32); a scale, of shape (1,), is one float32 value.
\* ------------------------------------------------------------------------
get_fp8_max(fp8_dtype, out_dtype) ==
  Cast(out_dtype, Fin(0, fp8_dtype.maxm, fp8_dtype.emax))

clip(x, lo, hi) == FMin(FMax(x, lo), hi)

\* quantize with dtype_max and the scale already in the compute dtype.
quantize_to(x, q_dtype, scale_c, dtype_max) ==
  [i \in 1..Len(x) |->
     Cast(q_dtype, clip(F32Div(x[i], scale_c), Neg(dtype_max), dtype_max))]

quantize(x, q_dtype, scale, compute_dtype) ==
  quantize_to(x, q_dtype, Cast(compute_dtype, scale),
              get_fp8_max(q_dtype, compute_dtype))

dequantize(x, dq_dtype, scale) ==
  [i \in 1..Len(x) |-> F32Mul(Cast(dq_dtype, x[i]), Cast(dq_dtype, scale))]

quantize_dequantize(x, q_dtype, scale, compute_dtype) ==
  dequantize(quantize(x, q_dtype, scale, compute_dtype), F32, scale)

\* jnp.where(condition, a, b) on scalars.
where(c, a, b) == IF c THEN a ELSE b

\* Lines 57-60 of compute_scale, given inv = 1.0 / scale (line 54) and
\* sf = (fp8_max / amax) / 2**margin (line 56), and a variant of them with
\* the final reciprocal dropped.
scale_from_no_reciprocal(amax, inv, sf) ==
  where(IsFinite(amax), where(GtZero(amax), sf, inv), inv)

scale_from(amax, inv, sf) ==
  F32Div(One, where(IsFinite(amax), where(GtZero(amax), sf, inv), inv))

compute_scale(amax, scale, fp8_max, margin) ==
  scale_from(amax, F32Div(One, scale),
             F32Div(F32Div(fp8_max, amax), Lit(2^margin, 0)))

\* jnp.roll(a, shift, axis=0): element i of the result is element
\* (i - shift) mod n of a (positions counted from 0).
roll(a, shift) ==
  [i \in 1..Len(a) |-> a[((i - 1 - shift) % Len(a)) + 1]]

\* Variants of the history update: slot 0 set without the roll, and the
\* roll taken toward the tail (shift=+1).
new_history_of_no_roll(amax_history, amax_update) ==
  [amax_history EXCEPT ![1] = amax_update]

new_history_of_roll_tail(amax_history, amax_update) ==
  [roll(amax_history, 1) EXCEPT ![1] = amax_update]

\* jnp.roll(amax_history, shift=-1, axis=0).at[0].set(amax_update)
new_history_of(amax_history, amax_update) ==
  [roll(amax_history, -1) EXCEPT ![1] = amax_update]

\* jnp.max(jnp.abs(x)).astype(scale.dtype)
amax_update_of(x) == Cast(F32, ArrayMax([i \in 1..Len(x) |-> Abs(x[i])]))

\* Lines 67-69 of compute_scale_and_amax_history, given new_history.
scale_and_history(new_history, q_dtype, scale) ==
  <<compute_scale(ArrayMax(new_history), scale, get_fp8_max(q_dtype, F32), 0),
    new_history>>

compute_scale_and_amax_history(x, q_dtype, scale, amax_history) ==
  scale_and_history(new_history_of(amax_history, amax_update_of(x)),
                    q_dtype, scale)

\* <<qx, new_scale, new_history>> from qx and <<new_scale, new_history>>.
Returned(qx, upd) == <<qx, upd[1], upd[2]>>

\* Variant of qdq_and_return that quantizes with the scale it has just
\* computed.
WithNewScale(x, q_dtype, upd, compute_dtype) ==
  Returned(quantize_dequantize(x, q_dtype, upd[1], compute_dtype), upd)
qdq_and_return_new_scale(x, q_dtype, scale, amax_history, compute_dtype) ==
  WithNewScale(x, q_dtype,
               compute_scale_and_amax_history(x, q_dtype, scale, amax_history),
               compute_dtype)

qdq_and_return(x, q_dtype, scale, amax_history, compute_dtype) ==
  Returned(quantize_dequantize(x, q_dtype, scale, compute_dtype),
           compute_scale_and_amax_history(x, q_dtype, scale, amax_history))

\* in_qdq and its custom_vjp rules.  A forward rule returns <<output,
\* residuals>>; a backward rule returns the cotangents of (inp, scale,
\* amax_history).
in_qdq(compute_dtype, inp, scale, amax_history) ==
  qdq_and_return(inp, E4M3, scale, amax_history, compute_dtype)[1]

\* Variant of in_qdq_fwd whose residuals are the scale and history passed in.
in_qdq_fwd_old_state(compute_dtype, inp, scale, amax_history) ==
  <<qdq_and_return(inp, E4M3, scale, amax_history, compute_dtype)[1],
    <<scale, amax_history>>>>

\* <<output, residuals>> of in_qdq_fwd from what qdq_and_return returned.
WithResiduals(r) == <<r[1], <<r[2], r[3]>>>>

in_qdq_fwd(compute_dtype, inp, scale, amax_history) ==
  WithResiduals(qdq_and_return(inp, E4M3, scale, amax_history, compute_dtype))

in_qdq_bwd(compute_dtype, r, g) == <<g, r[1], r[2]>>

out_qdq(compute_dtype, out, scale, amax_history) == out

out_qdq_fwd(compute_dtype, out, scale, amax_history) ==
  <<out, <<scale, amax_history>>>>

\* The contraction, uninterpreted: no variable of the operator depends on
\* its value, only on which operands and which cotangent went in.
dot_general_with_precision(lhs, rhs) == [lhs |-> lhs, rhs |-> rhs]
dot_general_cotangent(g, wrt) == [g |-> g, wrt |-> wrt]

\* ------------------------------------------------------------------------
\* Bounds and input sets.
\* ------------------------------------------------------------------------
MaxLen == 3      \* amax_history_length ranges over 1..MaxLen
MaxMargin == 1   \* margin ranges over 0..MaxMargin
MaxCommits == 2  \* times the six variables are overwritten per behaviour

Zeros(n) == [i \in 1..n |-> Zero(F32, 0)]
Tiny == Lit(1, -125)

\* Operands of the history updater: all-ones, a mixed-sign tensor, all-zero,
\* one with a NaN, one with an infinity, one whose largest magnitude is 2^-125.
TensorsH ==
  { <<One, One>>, <<Lit(-3, 0), Lit(2, 0)>>, <<Zero(F32, 0), Zero(F32, 1)>>,
    <<NaN, One>>, <<One, Inf(1)>>, <<Tiny, Zero(F32, 0)>> }

\* Arguments of compute_scale.
AmaxArgs ==
  { Zero(F32, 0), Lit(-1, 0), NaN, Inf(0), Inf(1), One, Lit(3, 0), Lit(11, 0),
    Lit(1000, 0), Tiny }
ScaleArgs ==
  { One, Lit(7, 0), Lit(3, 0), Lit(1, -3), F32Div(One, Lit(448, 0)),
    F32Div(One, F32Div(Lit(57344, 0), Lit(11, 0))) }

\* Operands of the operator (x, k) and upstream gradients.
Ones == <<One, One>>
Operands ==
  { <<Ones, Ones>>,
    <<(<<Lit(-1000, 0), Lit(2, 0)>>), (<<Lit(3, -2), Lit(-5, 0)>>)>>,
    <<(<<Lit(11, 0), Lit(1, -4)>>), (<<Zero(F32, 0), NaN>>)>> }
Upstream == { <<Lit(3, 0), Lit(-70000, 0)>>, <<Lit(1, -3), Lit(1, -20)>> }

VARIABLES
  cs_args, cs_ret,                        \* one call of compute_scale
  scale, amax_history, obs, scales,       \* the history updater, iterated
  input_scale, kernel_scale, output_grad_scale,          \* Fp8DotGeneralOp:
  input_amax_history, kernel_amax_history,               \* its six variables
  output_grad_amax_history,
  last,      \* the last operation, its arguments and what it returned
  res,       \* residuals of the pending forward pass, <<>> when none
  grads,     \* cotangents of the six variables, <<>> when none
  pre,       \* the six variables before the last operation
  fwd,       \* the six variables and operands of the last forward pass
  commits    \* how many times the variables were overwritten

cs_vars == <<cs_args, cs_ret>>
hist_vars == <<scale, amax_history, obs, scales>>
slot_vars == <<input_scale, kernel_scale, output_grad_scale,
               input_amax_history, kernel_amax_history,
               output_grad_amax_history>>
op_vars == <<slot_vars, last, res, grads, pre, fwd, commits>>
vars == <<cs_vars, hist_vars, op_vars>>

Slots ==
  [input_scale |-> input_scale, kernel_scale |-> kernel_scale,
   output_grad_scale |-> output_grad_scale,
   input_amax_history |-> input_amax_history,
   kernel_amax_history |-> kernel_amax_history,
   output_grad_amax_history |-> output_grad_amax_history]

\* Variant of out_qdq_bwd that reads the operator's variables when the
\* backward pass runs.
out_qdq_bwd_reads_variables(compute_dtype, r, g) ==
  qdq_and_return(g, E5M2, output_grad_scale, output_grad_amax_history,
                 compute_dtype)

out_qdq_bwd(compute_dtype, r, g) ==
  qdq_and_return(g, E5M2, r[1], r[2], compute_dtype)

\* ------------------------------------------------------------------------
\* compute_scale as a pure function: the arguments are drawn in the initial
\* state and one call stores what it returns.
\* ------------------------------------------------------------------------
CsIdle == cs_args = <<>> /\ cs_ret = <<>>
HistIdle == scale = One /\ amax_history = <<>> /\ obs = <<>> /\ scales = <<>>
NoOp == [op |-> "none", x |-> <<>>, k |-> <<>>, g |-> <<>>,
         x_qdq |-> <<>>, k_qdq |-> <<>>, q_g |-> <<>>]
OpIdle ==
  /\ input_scale = One /\ kernel_scale = One /\ output_grad_scale = One
  /\ input_amax_history = <<>> /\ kernel_amax_history = <<>>
  /\ output_grad_amax_history = <<>>
  /\ last = NoOp /\ res = <<>> /\ grads = <<>> /\ pre = <<>> /\ fwd = <<>>
  /\ commits = 0

InitScale ==
  /\ cs_args \in [amax : AmaxArgs, scale : ScaleArgs,
                  fp8_max : {get_fp8_max(E4M3, F32), get_fp8_max(E5M2, F32)},
                  margin : 0..MaxMargin]
  /\ cs_ret = <<>>
  /\ HistIdle
  /\ OpIdle

CallComputeScale ==
  /\ cs_args # <<>>
  /\ cs_ret = <<>>
  /\ cs_ret' = <<compute_scale(cs_args.amax, cs_args.scale, cs_args.fp8_max,
                               cs_args.margin)>>
  /\ UNCHANGED <<cs_args, hist_vars, op_vars>>

NextScale == CallComputeScale
SpecScale == InitScale /\ [][NextScale]_vars

\* ------------------------------------------------------------------------
\* The history updater iterated: each call receives the scale and history
\* the previous call returned, starting from the state setup creates
\* (scale one, history all zero).  obs and scales record, per call, the
\* observation max(abs(x)) and the scale returned.
\* ------------------------------------------------------------------------
InitHist ==
  /\ CsIdle
  /\ OpIdle
  /\ scale = One
  /\ amax_history \in {Zeros(n) : n \in 1..MaxLen}
  /\ obs = <<>>
  /\ scales = <<>>

\* A behaviour makes at most two calls more than the history is long: one
\* that sets a scale, one that inserts an observation, as many as it takes
\* to evict it again.
UpdateHistory(x) ==
  /\ amax_history # <<>>
  /\ Len(obs) < Len(amax_history) + 2
  /\ \E r \in {compute_scale_and_amax_history(x, E4M3, scale, amax_history)} :
        /\ scale' = r[1]
        /\ amax_history' = r[2]
        /\ scales' = Append(scales, r[1])
  /\ obs' = Append(obs, amax_update_of(x))
  /\ UNCHANGED <<cs_vars, op_vars>>

NextHist == \E x \in TensorsH : UpdateHistory(x)
SpecHist == InitHist /\ [][NextHist]_vars

\* The scenario of one operator with a history of length four.
InitScenario ==
  /\ CsIdle
  /\ OpIdle
  /\ scale = One
  /\ amax_history = Zeros(4)
  /\ obs = <<>>
  /\ scales = <<>>

SpecScenario == InitScenario /\ [][NextHist]_vars

\* ------------------------------------------------------------------------
\* Fp8DotGeneralOp.  setup creates the six variables; __call__ is one of
\* three operations: with use_amax_history=False, with use_amax_history=True
\* evaluated plainly, and with use_amax_history=True as the forward pass of a
\* differentiation, whose backward pass is a fourth.  The variables live in
\* the collection '_overwrite_with_gradient': the trainer stores the
\* cotangents the backward pass returns for them as their new values.
\* ------------------------------------------------------------------------
InitOp ==
  /\ CsIdle
  /\ HistIdle
  /\ input_scale = One /\ kernel_scale = One /\ output_grad_scale = One
  /\ input_amax_history = Zeros(MaxLen)
  /\ kernel_amax_history = Zeros(MaxLen)
  /\ output_grad_amax_history = Zeros(MaxLen)
  /\ last = NoOp /\ res = <<>> /\ grads = <<>> /\ pre = <<>> /\ fwd = <<>>
  /\ commits = 0

CallNoHistory_updating(x, k) ==
  /\ input_amax_history # <<>>
  /\ res = <<>> /\ grads = <<>>
  /\ \E qx \in {qdq_and_return(x, E4M3, input_scale, input_amax_history, F32)},
        qk \in {qdq_and_return(k, E4M3, kernel_scale, kernel_amax_history, F32)} :
       /\ last' = [NoOp EXCEPT !.op = "call_no_history", !.x = x, !.k = k,
                               !.x_qdq = qx[1], !.k_qdq = qk[1]]
       /\ input_scale' = qx[2] /\ input_amax_history' = qx[3]
       /\ kernel_scale' = qk[2] /\ kernel_amax_history' = qk[3]
  /\ pre' = <<Slots>>
  /\ UNCHANGED <<cs_vars, hist_vars, output_grad_scale,
                 output_grad_amax_history, res, grads, fwd, commits>>

\* __call__(x, k, dimension_numbers, use_amax_history=False).  The plain
\* calls are made while no differentiation is in progress.
CallNoHistory(x, k) ==
  /\ input_amax_history # <<>>
  /\ res = <<>> /\ grads = <<>>
  /\ \E x_qdq \in {quantize_dequantize(x, E4M3, input_scale, F32)},
        k_qdq \in {quantize_dequantize(k, E4M3, kernel_scale, F32)} :
       last' = [NoOp EXCEPT !.op = "call_no_history", !.x = x, !.k = k,
                            !.x_qdq = x_qdq, !.k_qdq = k_qdq]
  /\ pre' = <<Slots>>
  /\ UNCHANGED <<cs_vars, hist_vars, slot_vars, res, grads, fwd, commits>>

\* __call__(x, k, dimension_numbers), not differentiated: in_qdq and out_qdq
\* run their own bodies.
Call(x, k) ==
  /\ input_amax_history # <<>>
  /\ res = <<>> /\ grads = <<>>
  /\ \E x_qdq \in {in_qdq(F32, x, input_scale, input_amax_history)},
        k_qdq \in {in_qdq(F32, k, kernel_scale, kernel_amax_history)} :
       last' = [NoOp EXCEPT !.op = "call", !.x = x, !.k = k,
                            !.x_qdq = x_qdq, !.k_qdq = k_qdq]
  /\ pre' = <<Slots>>
  /\ UNCHANGED <<cs_vars, hist_vars, slot_vars, res, grads, fwd, commits>>

\* __call__(x, k, dimension_numbers) as the forward pass of a
\* differentiation: the forward rules run and their residuals are kept.
CallVjp(x, k) ==
  /\ input_amax_history # <<>>
  /\ res = <<>>
  /\ \E fx \in {in_qdq_fwd(F32, x, input_scale, input_amax_history)},
        fk \in {in_qdq_fwd(F32, k, kernel_scale, kernel_amax_history)} :
       \E fo \in {out_qdq_fwd(F32, dot_general_with_precision(fx[1], fk[1]),
                              output_grad_scale, output_grad_amax_history)} :
         /\ last' = [NoOp EXCEPT !.op = "call_vjp", !.x = x, !.k = k,
                                 !.x_qdq = fx[1], !.k_qdq = fk[1]]
         /\ res' = <<[x |-> fx[2], k |-> fk[2], out |-> fo[2]]>>
  /\ pre' = <<Slots>>
  /\ fwd' = <<[slots |-> Slots, x |-> x, k |-> k]>>
  /\ UNCHANGED <<cs_vars, hist_vars, slot_vars, grads, commits>>

\* The backward pass for the upstream gradient g: out_qdq_bwd, the
\* transposed contraction, in_qdq_bwd for each operand.  The cotangents of
\* the six variables are what the three backward rules return for them.
Backward(g) ==
  /\ res # <<>>
  /\ \E bo \in {out_qdq_bwd(F32, res[1].out, g)} :
       \E bx \in {in_qdq_bwd(F32, res[1].x, dot_general_cotangent(bo[1], "lhs"))},
          bk \in {in_qdq_bwd(F32, res[1].k, dot_general_cotangent(bo[1], "rhs"))} :
         /\ last' = [NoOp EXCEPT !.op = "backward", !.g = g, !.q_g = bo[1]]
         /\ grads' = <<[input_scale |-> bx[2], input_amax_history |-> bx[3],
                        kernel_scale |-> bk[2], kernel_amax_history |-> bk[3],
                        output_grad_scale |-> bo[2],
                        output_grad_amax_history |-> bo[3]]>>
  /\ res' = <<>>
  /\ pre' = <<Slots>>
  /\ UNCHANGED <<cs_vars, hist_vars, slot_vars, fwd, commits>>

\* The trainer overwrites the six variables with their cotangents.
Overwrite ==
  /\ grads # <<>>
  /\ commits < MaxCommits
  /\ commits' = commits + 1
  /\ input_scale' = grads[1].input_scale
  /\ input_amax_history' = grads[1].input_amax_history
  /\ kernel_scale' = grads[1].kernel_scale
  /\ kernel_amax_history' = grads[1].kernel_amax_history
  /\ output_grad_scale' = grads[1].output_grad_scale
  /\ output_grad_amax_history' = grads[1].output_grad_amax_history
  /\ grads' = <<>>
  /\ last' = [NoOp EXCEPT !.op = "overwrite"]
  /\ pre' = <<Slots>>
  /\ UNCHANGED <<cs_vars, hist_vars, res, fwd>>

Next ==
  \/ \E xk \in Operands : CallNoHistory(xk[1], xk[2])
  \/ \E xk \in Operands : Call(xk[1], xk[2])
  \/ \E xk \in Operands : CallVjp(xk[1], xk[2])
  \/ \E g \in Upstream : Backward(g)
  \/ Overwrite

Spec == InitOp /\ [][Next]_vars

\* ------------------------------------------------------------------------
\* Properties of the history updater.
\* ------------------------------------------------------------------------
HistLen == Len(amax_history)
NumCalls == Len(obs)
LastObs(n) == SubSeq(obs, NumCalls - n + 1, NumCalls)
Count(xs, v) == Cardinality({i \in 1..Len(xs) : xs[i] = v})
SameValues(xs, ys) ==
  \A v \in {xs[i] : i \in 1..Len(xs)} \cup {ys[i] : i \in 1..Len(ys)} :
    Count(xs, v) = Count(ys, v)

\* C1: after N >= W calls from the all-zero history, slot 0 holds the last
\* observation, the maximum over the slots is the maximum of the last W
\* observations, and the slots hold exactly the last W observations.
C1_HistoryRing ==
  (HistLen >= 1 /\ NumCalls >= HistLen) =>
    /\ amax_history[1] = obs[NumCalls]
    /\ ArrayMax(amax_history) = ArrayMax(LastObs(HistLen))
    /\ SameValues(amax_history, LastObs(HistLen))

\* An observation larger than every later one has been evicted.
C1_Witness ==
  /\ HistLen >= 2
  /\ NumCalls > HistLen
  /\ \A i \in 1..NumCalls : IsFinite(obs[i])
  /\ Lt(ArrayMax(LastObs(HistLen)), obs[NumCalls - HistLen])

\* C8: every scale is strictly positive and finite.
C8_ScalePositiveFinite == IsFinite(scale) /\ GtZero(scale)

\* C9 as stated: an update moves every slot one position toward the tail,
\* drops the last slot and writes the observation to slot 0, so slot i holds
\* the (i+1)-th most recent observation.
C9_ShiftTowardTail ==
  [][obs' # obs =>
       /\ amax_history'[1] = obs'[Len(obs')]
       /\ \A i \in 1..(HistLen - 1) : amax_history'[i + 1] = amax_history[i]
       /\ \A i \in 1..Min2(HistLen, Len(obs')) :
             amax_history'[i] = obs'[Len(obs') - i + 1]]_vars

\* C9 amended: an update writes the observation to slot 0, moves old slot 0
\* to the last slot and every old slot i >= 2 one position toward the head,
\* and drops old slot 1 (old slot 0 when the history has one slot); so slot
\* 0 holds the most recent observation and the slots W-1 down to 1 hold the
\* second, third, ... most recent one.
C9_RotateTowardHead ==
  [][obs' # obs =>
       /\ amax_history'[1] = obs'[Len(obs')]
       /\ HistLen >= 2 => amax_history'[HistLen] = amax_history[1]
       /\ \A i \in 2..(HistLen - 1) : amax_history'[i] = amax_history[i + 1]
       /\ \A i \in 2..HistLen :
             amax_history'[i] =
               IF Len(obs') - 1 - HistLen + i >= 1
               THEN obs'[Len(obs') - 1 - HistLen + i]
               ELSE Zero(F32, 0)]_vars

\* A history of three slots or more whose slots 1 and W-1 differ after more
\* calls than it has slots: the two layouts tell apart.
C9_Witness ==
  /\ HistLen >= 3
  /\ NumCalls > HistLen
  /\ amax_history[2] # amax_history[HistLen]
  /\ amax_history[2] = obs[NumCalls - HistLen + 1]

\* C10: a non-finite observation, alone in the window, leaves the scale at
\* the value it had before for the W updates during which it is in the
\* history; the update after those, when the W observations since are finite
\* and one is positive, sets the scale to max(those W observations) / fp8_max.
ScaleBefore(j) == IF j = 1 THEN One ELSE scales[j - 1]
AloneInWindow(j) ==
  \A i \in 1..NumCalls :
    (i # j /\ i > j - HistLen /\ i < j + HistLen) => IsFinite(obs[i])
FrozenWhileInWindow(j) ==
  \A i \in j..Min2(NumCalls, j + HistLen - 1) : scales[i] = ScaleBefore(j)
Recovers(j) ==
  /\ NumCalls >= j + HistLen
  /\ IsFinite(obs[j + HistLen])
  /\ \E i \in (j + 1)..(j + HistLen) : GtZero(obs[i])
C10_FreezeAndRecover ==
  \A j \in 1..NumCalls :
    (~IsFinite(obs[j]) /\ AloneInWindow(j)) =>
      /\ FrozenWhileInWindow(j)
      /\ Recovers(j) =>
           scales[j + HistLen] =
             F32Div(ArrayMax(SubSeq(obs, j + 1, j + HistLen)),
                    get_fp8_max(E4M3, F32))

\* C6 as stated: from scale one and the all-zero history of length four, one
\* update by the all-ones operand leaves 1.0 in slot 0 and the scale
\* format.max / 1.0 = 448.
AfterOnesFirst == NumCalls = 1 /\ HistLen = 4 /\ obs[1] = One
C6_ScaleIsFormatMax ==
  AfterOnesFirst => amax_history[1] = One /\ scale = Lit(448, 0)

\* C6 amended: the scale is the reciprocal of format.max / 1.0, the
\* float32 nearest to 1/448.
C6_ScaleIsReciprocal ==
  AfterOnesFirst =>
    /\ amax_history = <<One, Zero(F32, 0), Zero(F32, 0), Zero(F32, 0)>>
    /\ scale = F32Div(One, Lit(448, 0))

C6_Witness == AfterOnesFirst /\ scale # One

\* ------------------------------------------------------------------------
\* Properties of compute_scale.
\* ------------------------------------------------------------------------
\* C2: compute_scale returns oldScale itself when amax <= 0 or amax is not
\* finite, and 1 / ((fp8_max / amax) / 2^margin) otherwise.
C2_ScaleFallback ==
  cs_ret # <<>> =>
    cs_ret[1] =
      IF ~GtZero(cs_args.amax) \/ ~IsFinite(cs_args.amax)
      THEN cs_args.scale
      ELSE F32Div(One, F32Div(F32Div(cs_args.fp8_max, cs_args.amax),
                              Lit(2^cs_args.margin, 0)))

\* ------------------------------------------------------------------------
\* Properties of Fp8DotGeneralOp.
\* ------------------------------------------------------------------------
UpdateOf(x, q_dtype, slots, s, h) ==
  compute_scale_and_amax_history(x, q_dtype, slots[s], slots[h])

\* C3: the input-side wrapper quantizes-dequantizes its operand with the
\* scale passed in, the variable's value before the call; the scale and
\* history it computes from the operand go to the residuals only.
C3_QuantizedWithPassedScale ==
  /\ last.op \in {"call", "call_vjp"} =>
       /\ last.x_qdq = quantize_dequantize(last.x, E4M3, pre[1].input_scale, F32)
       /\ last.k_qdq = quantize_dequantize(last.k, E4M3, pre[1].kernel_scale, F32)
  /\ last.op = "call_vjp" =>
       /\ res[1].x = UpdateOf(last.x, E4M3, pre[1], "input_scale",
                              "input_amax_history")
       /\ res[1].k = UpdateOf(last.k, E4M3, pre[1], "kernel_scale",
                              "kernel_amax_history")

\* A forward pass, after an overwrite, whose operand would have come out
\* differently under the scale computed from it.
C3_Witness ==
  /\ last.op = "call_vjp"
  /\ commits >= 1
  /\ pre[1].input_scale # One
  /\ res[1].x[1] # pre[1].input_scale
  /\ last.x_qdq # quantize_dequantize(last.x, E4M3, res[1].x[1], F32)

\* C4 as stated: when the forward pass has returned, the input and kernel
\* variables hold the values computed from x and k; when the backward pass
\* has returned, the output-gradient variables hold those computed from g.
C4_ForwardCommits ==
  /\ last.op = "call_vjp" =>
       /\ <<input_scale, input_amax_history>> =
            UpdateOf(last.x, E4M3, pre[1], "input_scale", "input_amax_history")
       /\ <<kernel_scale, kernel_amax_history>> =
            UpdateOf(last.k, E4M3, pre[1], "kernel_scale", "kernel_amax_history")
  /\ last.op = "backward" =>
       <<output_grad_scale, output_grad_amax_history>> =
         UpdateOf(last.g, E5M2, fwd[1].slots, "output_grad_scale",
                  "output_grad_amax_history")

\* C4 amended: neither pass changes a variable.  The forward pass keeps the
\* values computed from x and k as residuals (and, for the output gradient,
\* the variables' current values); the backward pass returns them, with the
\* values computed from g, as the cotangents of the six variables.
C4_UpdatesReturnedAsCotangents ==
  /\ last.op \in {"call", "call_vjp", "backward"} => Slots = pre[1]
  /\ last.op = "call_vjp" =>
       /\ res[1].x = UpdateOf(last.x, E4M3, pre[1], "input_scale",
                              "input_amax_history")
       /\ res[1].k = UpdateOf(last.k, E4M3, pre[1], "kernel_scale",
                              "kernel_amax_history")
       /\ res[1].out = <<output_grad_scale, output_grad_amax_history>>
  /\ last.op = "backward" =>
       /\ <<grads[1].input_scale, grads[1].input_amax_history>> =
            UpdateOf(fwd[1].x, E4M3, fwd[1].slots, "input_scale",
                     "input_amax_history")
       /\ <<grads[1].kernel_scale, grads[1].kernel_amax_history>> =
            UpdateOf(fwd[1].k, E4M3, fwd[1].slots, "kernel_scale",
                     "kernel_amax_history")
       /\ <<grads[1].output_grad_scale, grads[1].output_grad_amax_history>> =
            UpdateOf(last.g, E5M2, fwd[1].slots, "output_grad_scale",
                     "output_grad_amax_history")

\* A backward pass has returned updates that differ from the variables.
C4_Witness ==
  /\ last.op = "backward"
  /\ grads[1].input_scale # input_scale
  /\ grads[1].input_amax_history # input_amax_history
  /\ grads[1].kernel_amax_history # kernel_amax_history
  /\ grads[1].output_grad_scale # output_grad_scale

\* C5: a call with use_amax_history=False changes none of the six variables,
\* computes no update, and quantizes-dequantizes both operands with the
\* variables' current scales.
C5_NoHistoryCallIsPure ==
  last.op = "call_no_history" =>
    /\ Slots = pre[1]
    /\ res = <<>> /\ grads = <<>>
    /\ last.x_qdq = quantize_dequantize(last.x, E4M3, input_scale, F32)
    /\ last.k_qdq = quantize_dequantize(last.k, E4M3, kernel_scale, F32)

\* Such a call after the scales have moved away from one, with an operand
\* that the initial scale would have quantized differently.
C5_Witness ==
  /\ last.op = "call_no_history"
  /\ commits >= 1
  /\ input_scale # One
  /\ input_amax_history # Zeros(Len(input_amax_history))
  /\ last.x_qdq # quantize_dequantize(last.x, E4M3, One, F32)

\* C7: the backward pass quantizes-dequantizes g in E5M2 with the
\* output-gradient scale the variables held when the forward pass ran, and
\* computes the update from g, that scale and that history.
C7_BackwardUsesResiduals ==
  last.op = "backward" =>
    /\ last.q_g = quantize_dequantize(last.g, E5M2,
                                      fwd[1].slots.output_grad_scale, F32)
    /\ <<grads[1].output_grad_scale, grads[1].output_grad_amax_history>> =
         UpdateOf(last.g, E5M2, fwd[1].slots, "output_grad_scale",
                  "output_grad_amax_history")

\* The variables were overwritten between the two passes, and the scale
\* they hold now would have quantized g differently.
C7_Witness ==
  /\ last.op = "backward"
  /\ fwd[1].slots.output_grad_scale # output_grad_scale
  /\ fwd[1].slots.output_grad_amax_history # output_grad_amax_history
  /\ last.q_g # quantize_dequantize(last.g, E5M2, output_grad_scale, F32)

====
